---- MODULE Spec2Model ----
(***************************************************************************)
(* Model of generate_database.py: the conversion of a KANJIDIC2 XML        *)
(* document into the SQLite file kanjidic2.db.                             *)
(*                                                                         *)
(* A Python value that may be None is a sequence of length at most one:    *)
(* None is <<>> and a value v is <<v>>.  The children of an XML element    *)
(* with a given tag are a sequence in document order; find() is its first  *)
(* element, findall() the whole sequence.  A character (a literal) and a   *)
(* reading or meaning text are code numbers; the text of a numeric field   *)
(* is a sequence of one-character strings.                                 *)
(***************************************************************************)
EXTENDS Integers, Sequences, FiniteSets, TLC

None == <<>>
Some(v) == <<v>>
Val(o) == o[1]

\* ------------------------------------------------------------------ bounds
\* Longest document made of freely chosen entries.
MaxEntries == 2
\* Length of the run of plain entries that opens a long document.
MaxFill == 100
\* Children of one rmgroup.
MaxElems == 2
\* Largest commit interval, other than the script's, of a compared run.
MaxEvery == 2

\* -------------------------------------------------------- program constants
\* count % 100 == 0
CommitInterval == 100

RecognizedTypes == {Some("ja_on"), Some("ja_kun")}

\* ------------------------------------------------------------------- XML
\* As Find, giving the last child with that tag.
FindLast(children) == IF children = <<>> THEN None ELSE Some(children[Len(children)])

\* element.find(tag): the first child with that tag, or None.
Find(children) == IF children = <<>> THEN None ELSE Some(children[1])

IsDigit(c) == c \in {"0", "1", "2", "3", "4", "5", "6", "7", "8", "9"}

DigitVal(c) ==
  CASE c = "0" -> 0 [] c = "1" -> 1 [] c = "2" -> 2 [] c = "3" -> 3
    [] c = "4" -> 4 [] c = "5" -> 5 [] c = "6" -> 6 [] c = "7" -> 7
    [] c = "8" -> 8 [] c = "9" -> 9

RECURSIVE DigitsVal(_)
DigitsVal(s) ==
  IF s = <<>> THEN 0
  ELSE 10 * DigitsVal(SubSeq(s, 1, Len(s) - 1)) + DigitVal(s[Len(s)])

\* int(text): None on a text that is None or is no decimal numeral (the call
\* raises), else the number.
ParseInt(text) ==
  IF text = None THEN None
  ELSE IF Val(text) = <<>> \/ \E k \in 1..Len(Val(text)) : ~IsDigit(Val(text)[k])
       THEN None
       ELSE Some(DigitsVal(Val(text)))

\* One numeric field of misc (grade, stroke_count, freq, jlpt): absent gives
\* None, present gives int(text), which may raise.
IntField(children) ==
  IF Find(children) = None THEN [ok |-> TRUE, val |-> None]
  ELSE IF ParseInt(Val(Find(children))) = None THEN [ok |-> FALSE, val |-> None]
  ELSE [ok |-> TRUE, val |-> ParseInt(Val(Find(children)))]

\* The four numeric fields of an entry, all None when it has no misc element.
MiscFields(character) ==
  IF Find(character.misc) = None
  THEN [ok |-> TRUE, grade |-> None, stroke_count |-> None, freq |-> None, jlpt |-> None]
  ELSE LET m == Val(Find(character.misc))
           g == IntField(m.grade)
           s == IntField(m.stroke_count)
           f == IntField(m.freq)
           j == IntField(m.jlpt)
       IN  [ok |-> g.ok /\ s.ok /\ f.ok /\ j.ok,
            grade |-> g.val, stroke_count |-> s.val, freq |-> f.val, jlpt |-> j.val]

\* The first rmgroup of the entry's first reading_meaning, or None.
FirstGroup(character) ==
  IF Find(character.reading_meaning) = None THEN None
  ELSE Find(Val(Find(character.reading_meaning)).rmgroup)

\* element.findall(tag): the children with that tag, in document order.
FindAll(children, tag) == SelectSeq(children, LAMBDA e : e.tag = tag)

\* rmgroup.findall('reading') and rmgroup.findall('meaning') of that group;
\* nothing is iterated when there is no such group.
ReadingElems(character) ==
  IF FirstGroup(character) = None THEN <<>>
  ELSE FindAll(Val(FirstGroup(character)).children, "reading")

MeaningElems(character) ==
  IF FirstGroup(character) = None THEN <<>>
  ELSE FindAll(Val(FirstGroup(character)).children, "meaning")

\* ---------------------------------------------------------------- SQLite
\* A database: the names in its schema, the rows of each table in insertion
\* order, and sqlite_sequence (the last id given by each AUTOINCREMENT table).
EmptyDb ==
  [schema |-> {}, kanji |-> <<>>, readings |-> <<>>, meanings |-> <<>>,
   dictionary_metadata |-> <<>>, room_table_modification_log |-> <<>>,
   room_master_table |-> <<>>, lastId |-> [readings |-> 0, meanings |-> 0]]

\* The PRIMARY KEY column a statement of the script supplies, per table.
KeyColumn(table) ==
  CASE table = "kanji" -> "literal"
    [] table = "dictionary_metadata" -> "key"
    [] table = "room_table_modification_log" -> "table_id"
    [] table = "room_master_table" -> "id"

AutoIncrement(table) == table \in {"readings", "meanings"}

\* The NOT NULL columns a statement of the script supplies, per table.
NotNullColumns(table) ==
  CASE table = "kanji" -> {"literal"}
    [] table = "readings" -> {"literal", "readingType", "reading"}
    [] table = "meanings" -> {"literal", "meaning"}
    [] table = "dictionary_metadata" -> {"key", "value"}
    [] table = "room_table_modification_log" -> {"invalidated"}
    [] table = "room_master_table" -> {}

\* As Rejects, for tables declared without PRIMARY KEY.
RejectsWithoutKey(db, table, row) ==
  \/ table \notin db.schema
  \/ \E c \in NotNullColumns(table) : row[c] = None

\* An INSERT the engine rejects: no such table, a NULL in a NOT NULL column,
\* or a primary key already present.
Rejects(db, table, row) ==
  \/ table \notin db.schema
  \/ \E c \in NotNullColumns(table) : row[c] = None
  \/ /\ ~AutoIncrement(table)
     /\ \E k \in 1..Len(db[table]) : db[table][k][KeyColumn(table)] = row[KeyColumn(table)]

\* The database after an accepted INSERT.
Inserted(db, table, row) ==
  IF AutoIncrement(table)
  THEN [db EXCEPT ![table] = Append(@, [id |-> Some(db.lastId[table] + 1)] @@ row),
                  !.lastId[table] = @ + 1]
  ELSE [db EXCEPT ![table] = Append(@, row)]

\* A session: the connection's view, the committed file content, whether a
\* transaction is open, and whether every statement so far succeeded.
\* The sqlite3 module opens a transaction before an INSERT and not before
\* CREATE; a statement outside a transaction is committed at once.
Execute(s, st) ==
  IF ~s.ok THEN s
  ELSE IF st.op = "create"
  THEN IF st.name \in s.conn.schema THEN [s EXCEPT !.ok = FALSE]
       ELSE LET c == [s.conn EXCEPT !.schema = @ \cup {st.name}]
            IN  [s EXCEPT !.conn = c, !.disk = IF s.intx THEN s.disk ELSE c]
  ELSE IF Rejects(s.conn, st.table, st.row) THEN [s EXCEPT !.ok = FALSE, !.intx = TRUE]
  ELSE [s EXCEPT !.conn = Inserted(s.conn, st.table, st.row), !.intx = TRUE]

RECURSIVE ExecuteAll(_, _)
ExecuteAll(s, sts) ==
  IF sts = <<>> THEN s ELSE ExecuteAll(Execute(s, Head(sts)), Tail(sts))

\* conn.commit()
Commit(s) == [s EXCEPT !.disk = s.conn, !.intx = FALSE]

Create(n) == [op |-> "create", name |-> n]
Insert(t, r) == [op |-> "insert", table |-> t, row |-> r]

\* ------------------------------------------------------------- the script
\* As SchemaStatements, with the metadata rows written with the schema.
SchemaStatementsWithMetadata ==
  << Create("kanji"), Create("index_kanji_freq"),
     Create("readings"), Create("index_readings_literal"),
     Create("meanings"), Create("index_meanings_literal"),
     Create("dictionary_metadata"),
     Insert("dictionary_metadata", [key |-> Some("dictionary_initialized"), value |-> Some("true")]),
     Create("room_table_modification_log"),
     Create("room_master_table") >>

\* The schema statements, in the script's order.
SchemaStatements ==
  << Create("kanji"), Create("index_kanji_freq"),
     Create("readings"), Create("index_readings_literal"),
     Create("meanings"), Create("index_meanings_literal"),
     Create("dictionary_metadata"),
     Create("room_table_modification_log"),
     Insert("room_table_modification_log", [table_id |-> Some(0), invalidated |-> Some(0)]),
     Insert("room_table_modification_log", [table_id |-> Some(1), invalidated |-> Some(0)]),
     Insert("room_table_modification_log", [table_id |-> Some(2), invalidated |-> Some(0)]),
     Insert("room_table_modification_log", [table_id |-> Some(3), invalidated |-> Some(0)]),
     Insert("room_table_modification_log", [table_id |-> Some(4), invalidated |-> Some(0)]),
     Create("room_master_table"),
     Insert("room_master_table", [id |-> Some(42), identity_hash |-> Some("PLACEHOLDER_HASH")]) >>

MetadataStatements ==
  << Insert("dictionary_metadata", [key |-> Some("kanjidic2_version"), value |-> Some("2025-01")]),
     Insert("dictionary_metadata", [key |-> Some("dictionary_initialized"), value |-> Some("true")]) >>

\* As KanjiStatement, with the first two parameters bound in the wrong order.
KanjiStatementSwapped(literal_text, m) ==
  Insert("kanji", [literal |-> m.grade, grade |-> literal_text,
                   strokeCount |-> m.stroke_count, freq |-> m.freq, jlpt |-> m.jlpt])

KanjiStatement(literal_text, m) ==
  Insert("kanji", [literal |-> literal_text, grade |-> m.grade,
                   strokeCount |-> m.stroke_count, freq |-> m.freq, jlpt |-> m.jlpt])

ReadingStatement(literal_text, reading_elem) ==
  Insert("readings", [literal |-> literal_text, readingType |-> reading_elem.r_type,
                      reading |-> reading_elem.text])

MeaningStatement(literal_text, meaning_elem) ==
  Insert("meanings", [literal |-> literal_text, meaning |-> meaning_elem.text])

\* As KeepReading, keeping every reading that has a type.
KeepTypedReading(reading_elem) == reading_elem.r_type # None

\* r_type in ('ja_on', 'ja_kun')
KeepReading(reading_elem) == reading_elem.r_type \in RecognizedTypes

\* As KeepMeaning, keeping the meanings of every language.
KeepAnyMeaning(meaning_elem) == TRUE

\* meaning_elem.get('m_lang') is None
KeepMeaning(meaning_elem) == meaning_elem.m_lang = None

\* As CommitDue, never due.
CommitNeverDue(n, every) == FALSE

\* count % 100 == 0, for a commit interval of every entries; every = 0 stands
\* for a run with no periodic commit.
CommitDue(n, every) == every > 0 /\ n % every = 0

\* ----------------------------------------------------------------- inputs
SeqsUpTo(S, n) == UNION {[1..k -> S] : k \in 0..n}

Reading(t, x) == [tag |-> "reading", r_type |-> t, m_lang |-> None, text |-> x]
Meaning(l, x) == [tag |-> "meaning", r_type |-> None, m_lang |-> l, text |-> x]
Group(c) == [children |-> c]
ReadingMeaning(g) == [rmgroup |-> g]
Num(t) == <<Some(t)>>
Misc(g, s, f, j) == [grade |-> g, stroke_count |-> s, freq |-> f, jlpt |-> j]
Character(l, m, rm) == [literal |-> l, misc |-> m, reading_meaning |-> rm]

\* Children an rmgroup may hold: readings of a recognized, another and no
\* type, meanings with and without m_lang, and elements without text.
ElemKinds ==
  { Reading(Some("ja_on"), Some(11)), Reading(Some("ja_kun"), Some(12)),
    Reading(Some("pinyin"), Some(13)), Reading(None, Some(14)),
    Reading(Some("ja_on"), None),
    Meaning(None, Some(21)), Meaning(Some("fr"), Some(22)), Meaning(None, None) }

\* The entry of the character 'water': grade 1, 4 strokes, frequency 1915,
\* JLPT 7, an on and a kun reading, an English and a French meaning.
WaterMisc == <<Misc(Num(<<"1">>), Num(<<"4">>), Num(<<"1", "9", "1", "5">>), Num(<<"7">>))>>

WaterGroup ==
  Group(<< Reading(Some("ja_on"), Some(11)), Reading(Some("ja_kun"), Some(12)),
           Meaning(None, Some(21)), Meaning(Some("fr"), Some(22)) >>)

\* The literal element: absent, without text, or one of two characters.
LiteralChoices == { <<>>, <<None>>, <<Some(1)>>, <<Some(1001)>> }

\* Other misc elements: empty, a lone frequency of 0, a non-numeric grade,
\* a jlpt element without text.
MiscChoices ==
  { <<Misc(<<>>, <<>>, <<>>, <<>>)>>,
    <<Misc(<<>>, <<>>, Num(<<"0">>), <<>>)>>,
    <<Misc(Num(<<"z">>), Num(<<"4">>), <<>>, <<>>)>>,
    <<Misc(Num(<<"1">>), <<>>, <<>>, <<None>>)>> }

\* reading_meaning elements: absent, without rmgroup, with one rmgroup of up
\* to MaxElems children, and with a second rmgroup after an rmgroup.
RmChoices ==
  { <<>>, <<ReadingMeaning(<<>>)>> }
  \cup { <<ReadingMeaning(<<Group(c)>>)>> : c \in SeqsUpTo(ElemKinds, MaxElems) }
  \cup { <<ReadingMeaning(<<Group(c), WaterGroup>>)>> :
            c \in {<<>>, <<Reading(Some("ja_kun"), Some(12)), Meaning(None, Some(23))>>} }

\* Entries that differ from 'water' in the literal only.
SimpleEntries == { Character(l, WaterMisc, <<ReadingMeaning(<<WaterGroup>>)>>) : l \in LiteralChoices }

\* Entries of the character 1001 with another misc or reading_meaning.
RichEntries ==
  { Character(<<Some(1001)>>, m, <<>>) : m \in MiscChoices }
  \cup { Character(<<Some(1001)>>, <<>>, rm) : rm \in RmChoices }

\* Rich entries whose first rmgroup holds at most one child.
SmallEntries ==
  { e \in RichEntries :
      FirstGroup(e) = None \/ Len(Val(FirstGroup(e)).children) <= 1 }

\* Documents of up to n entries: simple entries and at most one of rich.
DocsUpTo(rich, n) ==
  SeqsUpTo(SimpleEntries, n)
  \cup { SubSeq(d, 1, k) \o <<r>> \o SubSeq(d, k + 1, Len(d)) :
            <<d, k, r>> \in { t \in SeqsUpTo(SimpleEntries, n - 1) \X (0..(n - 1)) \X rich :
                               t[2] <= Len(t[1]) } }

\* The k-th plain entry: the character k with an on reading and a meaning.
PlainEntry(k) ==
  Character(<<Some(k)>>, <<>>,
            <<ReadingMeaning(<<Group(<<Reading(Some("ja_on"), Some(11)), Meaning(None, Some(21))>>)>>)>>)

PlainRun(n) == [k \in 1..n |-> PlainEntry(k)]

\* Long documents: a run of plain entries that ends at or just before a
\* commit boundary, then nothing or one more entry.
LongDocs ==
  { PlainRun(n) \o t :
      n \in {MaxFill - 1, MaxFill},
      t \in {<<>>} \cup {<<e>> : e \in SimpleEntries \cup SmallEntries} }

Docs == DocsUpTo(RichEntries, MaxEntries) \cup LongDocs

\* The documents of a run that is compared with a second run.
DocsTwice == DocsUpTo(SmallEntries, MaxEntries) \cup LongDocs

\* What the command line names: nothing, a path that does not exist, a path
\* that exists and cannot be parsed as XML, or a document.
ArgKinds == {"none", "missing", "unparseable", "xml"}

\* An output file left by an earlier build from other data.
OldDb ==
  [schema |-> {"kanji", "index_kanji_freq", "readings", "index_readings_literal",
               "meanings", "index_meanings_literal", "dictionary_metadata",
               "room_table_modification_log", "room_master_table"},
   kanji |-> << [literal |-> Some(7), grade |-> None, strokeCount |-> Some(2),
                 freq |-> None, jlpt |-> None] >>,
   readings |-> << [id |-> Some(1), literal |-> Some(7), readingType |-> Some("ja_on"),
                    reading |-> Some(15)] >>,
   meanings |-> << [id |-> Some(1), literal |-> Some(7), meaning |-> Some(25)] >>,
   dictionary_metadata |-> << [key |-> Some("dictionary_initialized"), value |-> Some("true")] >>,
   room_table_modification_log |-> << [table_id |-> Some(0), invalidated |-> Some(0)] >>,
   room_master_table |-> << [id |-> Some(42), identity_hash |-> Some("PLACEHOLDER_HASH")] >>,
   lastId |-> [readings |-> 1, meanings |-> 1]]

\* Commit intervals of a compared run: none, 1..MaxEvery, the script's.
Everies == {0} \cup (1..MaxEvery) \cup {CommitInterval}

\* ------------------------------------------------------------------ state
VARIABLES
  argv,     \* what the command line names (an element of ArgKinds)
  doc,      \* root.findall('character') of the named document
  every,    \* the commit interval of the current run
  disk,     \* kanjidic2.db as committed: None when there is no file
  conn,     \* the connection's view of the database: None when not connected
  intx,     \* the connection has an open transaction
  pc,       \* the statement the script is at
  i,        \* index in doc of the current entry
  j,        \* index of the current reading or meaning element
  count,    \* the script's count
  status,   \* the exit status, None while the script runs
  run,      \* number of the current invocation
  first     \* the output file as the previous invocation left it

vars == <<argv, doc, every, disk, conn, intx, pc, i, j, count, status, run, first>>

input == <<argv, doc, every, run, first>>

Session == [ok |-> TRUE, conn |-> Val(conn), disk |-> Val(disk), intx |-> intx]

\* len(sys.argv) >= 2
HasArgument(a) == a # "none"

\* As PathExists, taking every path named to exist.
PathNamed(a) == a # "none"

\* os.path.exists(xml_file)
PathExists(a) == a \notin {"none", "missing"}

\* As RemoveFile, leaving the file in place.
FileKept(d) == d

\* os.remove(db_file)
RemoveFile(d) == None

\* As EndCommit, with the commit left out.
EndCommitMissing(s) == s

\* conn.commit() once the loop over the entries is over.
EndCommit(s) == Commit(s)

\* sys.exit(1) before the connection is made.
Exit1 ==
  /\ pc' = "exited"
  /\ status' = Some(1)
  /\ UNCHANGED <<input, disk, conn, intx, i, j, count>>

\* An uncaught exception: the connection is dropped with its transaction
\* open, so the file keeps what was committed.
Raise(s) ==
  /\ pc' = "exited"
  /\ status' = Some(1)
  /\ disk' = Some(s.disk)
  /\ conn' = None
  /\ intx' = FALSE
  /\ UNCHANGED <<input, i, j, count>>

\* The session after statements that succeeded.
Keep(s) ==
  /\ disk' = Some(s.disk)
  /\ conn' = Some(s.conn)
  /\ intx' = s.intx

\* Where the script goes after the element at position k of the loop named
\* by at ("kanji" before both loops): the next element to look at, or count.
After(character, at, k) ==
  IF at = "kanji" /\ ReadingElems(character) # <<>> THEN <<"reading", 1>>
  ELSE IF at = "reading" /\ k < Len(ReadingElems(character)) THEN <<"reading", k + 1>>
  ELSE IF at \in {"kanji", "reading"} /\ MeaningElems(character) # <<>> THEN <<"meaning", 1>>
  ELSE IF at = "meaning" /\ k < Len(MeaningElems(character)) THEN <<"meaning", k + 1>>
  ELSE <<"count", 1>>

InitOver(documents) ==
  /\ argv \in ArgKinds
  /\ doc \in IF argv = "xml" THEN documents ELSE {<<>>}
  /\ every = CommitInterval
  /\ disk \in {None, Some(OldDb)}
  /\ conn = None
  /\ intx = FALSE
  /\ pc = "args"
  /\ i = 1
  /\ j = 1
  /\ count = 0
  /\ status = None
  /\ run = 1
  /\ first = None

Init == InitOver(Docs)

InitTwice == InitOver(DocsTwice)

\* if len(sys.argv) < 2
CheckArgs ==
  /\ pc = "args"
  /\ IF ~HasArgument(argv) THEN Exit1
     ELSE pc' = "exists" /\ UNCHANGED <<input, disk, conn, intx, i, j, count, status>>

\* if not os.path.exists(xml_file)
CheckExists ==
  /\ pc = "exists"
  /\ IF ~PathExists(argv) THEN Exit1
     ELSE pc' = "remove" /\ UNCHANGED <<input, disk, conn, intx, i, j, count, status>>

\* if os.path.exists(db_file): os.remove(db_file)
RemoveOld ==
  /\ pc = "remove"
  /\ disk' = IF disk # None THEN RemoveFile(disk) ELSE disk
  /\ pc' = "schema"
  /\ UNCHANGED <<input, conn, intx, i, j, count, status>>

\* sqlite3.connect(db_file) and the schema statements.
CreateSchema ==
  /\ pc = "schema"
  /\ LET db == IF disk = None THEN EmptyDb ELSE Val(disk)
         s == ExecuteAll([ok |-> TRUE, conn |-> db, disk |-> db, intx |-> FALSE],
                         SchemaStatements)
     IN  IF s.ok
         THEN Keep(s) /\ pc' = "parse" /\ UNCHANGED <<input, i, j, count, status>>
         ELSE Raise(s)

\* ET.parse(xml_file); root.findall('character')
Parse ==
  /\ pc = "parse"
  /\ IF argv = "unparseable" THEN Raise(Session)
     ELSE /\ pc' = "entry"
          /\ i' = 1
          /\ count' = 0
          /\ UNCHANGED <<input, disk, conn, intx, j, status>>

\* if literal is None: continue
SkipEntry ==
  /\ pc = "entry"
  /\ i <= Len(doc)
  /\ Find(doc[i].literal) = None
  /\ i' = i + 1
  /\ UNCHANGED <<input, disk, conn, intx, pc, j, count, status>>

\* The entry's numeric fields and its INSERT INTO kanji.
InsertKanji ==
  /\ pc = "entry"
  /\ i <= Len(doc)
  /\ Find(doc[i].literal) # None
  /\ LET literal_text == Val(Find(doc[i].literal))
         m == MiscFields(doc[i])
         s == Execute(Session, KanjiStatement(literal_text, m))
     IN  IF m.ok /\ s.ok
         THEN /\ Keep(s)
              /\ pc' = After(doc[i], "kanji", 0)[1]
              /\ j' = After(doc[i], "kanji", 0)[2]
              /\ UNCHANGED <<input, i, count, status>>
         ELSE Raise(Session)

\* One turn of the loop over rmgroup.findall('reading').
ReadingStep ==
  /\ pc = "reading"
  /\ LET literal_text == Val(Find(doc[i].literal))
         reading_elem == ReadingElems(doc[i])[j]
         s == IF KeepReading(reading_elem)
              THEN Execute(Session, ReadingStatement(literal_text, reading_elem))
              ELSE Session
     IN  IF s.ok
         THEN /\ Keep(s)
              /\ pc' = After(doc[i], "reading", j)[1]
              /\ j' = After(doc[i], "reading", j)[2]
              /\ UNCHANGED <<input, i, count, status>>
         ELSE Raise(Session)

\* One turn of the loop over rmgroup.findall('meaning').
MeaningStep ==
  /\ pc = "meaning"
  /\ LET literal_text == Val(Find(doc[i].literal))
         meaning_elem == MeaningElems(doc[i])[j]
         s == IF KeepMeaning(meaning_elem)
              THEN Execute(Session, MeaningStatement(literal_text, meaning_elem))
              ELSE Session
     IN  IF s.ok
         THEN /\ Keep(s)
              /\ pc' = After(doc[i], "meaning", j)[1]
              /\ j' = After(doc[i], "meaning", j)[2]
              /\ UNCHANGED <<input, i, count, status>>
         ELSE Raise(Session)

\* count += 1; if count % 100 == 0: conn.commit()
CountEntry ==
  /\ pc = "count"
  /\ count' = count + 1
  /\ Keep(IF CommitDue(count + 1, every) THEN Commit(Session) ELSE Session)
  /\ i' = i + 1
  /\ j' = 1
  /\ pc' = "entry"
  /\ UNCHANGED <<input, status>>

\* The loop is exhausted: conn.commit()
FinalCommit ==
  /\ pc = "entry"
  /\ i > Len(doc)
  /\ Keep(EndCommit(Session))
  /\ pc' = "metadata"
  /\ UNCHANGED <<input, i, j, count, status>>

\* The two INSERT INTO dictionary_metadata.
AddMetadata ==
  /\ pc = "metadata"
  /\ LET s == ExecuteAll(Session, MetadataStatements)
     IN  IF s.ok
         THEN Keep(s) /\ pc' = "commit" /\ UNCHANGED <<input, i, j, count, status>>
         ELSE Raise(Session)

\* conn.commit() after the metadata.
CommitMetadata ==
  /\ pc = "commit"
  /\ Keep(EndCommit(Session))
  /\ pc' = "report"
  /\ UNCHANGED <<input, i, j, count, status>>

\* The schema and statistics queries, conn.close() and the end of the script.
Finish ==
  /\ pc = "report"
  /\ conn' = None
  /\ intx' = FALSE
  /\ pc' = "exited"
  /\ status' = Some(0)
  /\ UNCHANGED <<input, disk, i, j, count>>

\* The tool is invoked again with the same argument, after the output file
\* was left alone, deleted or replaced; the compared run may commit at
\* another interval.
Rerun ==
  /\ pc = "exited"
  /\ run = 1
  /\ run' = run + 1
  /\ first' = Some(disk)
  /\ disk' \in {disk, None, Some(OldDb)}
  /\ every' \in Everies
  /\ pc' = "args"
  /\ i' = 1
  /\ j' = 1
  /\ count' = 0
  /\ status' = None
  /\ UNCHANGED <<argv, doc, conn, intx>>

Next ==
  \/ CheckArgs
  \/ CheckExists
  \/ RemoveOld
  \/ CreateSchema
  \/ Parse
  \/ SkipEntry
  \/ InsertKanji
  \/ ReadingStep
  \/ MeaningStep
  \/ CountEntry
  \/ FinalCommit
  \/ AddMetadata
  \/ CommitMetadata
  \/ Finish

Spec == Init /\ [][Next]_vars

NextTwice == Next \/ Rerun

SpecTwice == InitTwice /\ [][NextTwice]_vars

\* ----------------------------------------------------------------- claims
\* The output file exists and was made by the current invocation.
Built ==
  /\ disk # None
  /\ pc \notin {"args", "exists", "remove", "schema"}
  /\ PathExists(argv)

HasLiteral(k) == doc[k].literal # <<>>

LiteralOf(k) == doc[k].literal[1]

WithLiteral == {k \in DOMAIN doc : HasLiteral(k)}

\* The recognized reading elements and the unqualified meaning elements of
\* the first rmgroup of entry k, as (type, text) and (text), in document order.
FirstChildren(k) ==
  IF doc[k].reading_meaning = <<>> THEN <<>>
  ELSE IF doc[k].reading_meaning[1].rmgroup = <<>> THEN <<>>
  ELSE doc[k].reading_meaning[1].rmgroup[1].children

ExpectedReadings(k) ==
  LET kept == SelectSeq(FirstChildren(k),
                        LAMBDA e : e.tag = "reading" /\ e.r_type \in {<<"ja_on">>, <<"ja_kun">>})
  IN  [n \in 1..Len(kept) |-> <<kept[n].r_type, kept[n].text>>]

ExpectedMeanings(k) ==
  LET kept == SelectSeq(FirstChildren(k), LAMBDA e : e.tag = "meaning" /\ e.m_lang = <<>>)
  IN  [n \in 1..Len(kept) |-> kept[n].text]

RECURSIVE Total(_, _)
Total(f, S) == IF S = {} THEN 0 ELSE LET x == CHOOSE x \in S : TRUE IN f[x] + Total(f, S \ {x})

\* One kanji row per entry with a literal and no row from any other entry.
OneRowPerLiteral(db) ==
  /\ \A k \in WithLiteral :
       Cardinality({r \in 1..Len(db.kanji) : db.kanji[r].literal = LiteralOf(k)}) = 1
  /\ Len(db.kanji) = Cardinality(WithLiteral)
  /\ Len(db.readings) = Total([k \in WithLiteral |-> Len(ExpectedReadings(k))], WithLiteral)
  /\ Len(db.meanings) = Total([k \in WithLiteral |-> Len(ExpectedMeanings(k))], WithLiteral)
  /\ \A t \in {"kanji", "readings", "meanings"} : \A r \in 1..Len(db[t]) :
       db[t][r].literal \in {LiteralOf(k) : k \in WithLiteral}

\* C1 as stated: after a run over any document, completed or not, every
\* entry with a literal has exactly one kanji row, the kanji rows are as many
\* as the entries with a literal, and no row comes from an entry without one.
C1_AnyRun == (pc = "exited" /\ argv = "xml") => (disk # None /\ OneRowPerLiteral(Val(disk)))

\* C1 amended: after a run that completes (exit status 0), every entry with
\* a literal has exactly one kanji row, the kanji rows are as many as the
\* entries with a literal, and no row comes from an entry without a literal.
C1_CompletedRun == (pc = "exited" /\ status = Some(0)) => (disk # None /\ OneRowPerLiteral(Val(disk)))

\* A completed run over a document with and without literal elements.
C1_Witness ==
  /\ pc = "exited" /\ status = Some(0)
  /\ WithLiteral # {} /\ WithLiteral # DOMAIN doc
  /\ Len(Val(disk).readings) > 0

TypesRecognized(db) ==
  \A r \in 1..Len(db.readings) : db.readings[r].readingType \in {<<"ja_on">>, <<"ja_kun">>}

\* C2: in every state of the connection and of the file the run builds,
\* every readings row has readingType ja_on or ja_kun.
C2_ReadingTypes ==
  /\ conn # None => TypesRecognized(Val(conn))
  /\ Built => TypesRecognized(Val(disk))

\* An entry is done whose first rmgroup holds both a reading that was kept
\* and a reading of another type or of none.
C2_Witness ==
  /\ pc = "count"
  /\ \E e \in {FirstChildren(i)[n] : n \in 1..Len(FirstChildren(i))} :
        e.tag = "reading" /\ e.r_type \notin {<<"ja_on">>, <<"ja_kun">>}
  /\ \E r \in 1..Len(Val(conn).readings) : Val(conn).readings[r].literal = LiteralOf(i)

LiteralsIn(rows) == {rows[r].literal : r \in 1..Len(rows)}

Referenced(db) ==
  LiteralsIn(db.readings) \cup LiteralsIn(db.meanings) \subseteq LiteralsIn(db.kanji)

\* C4: in every state of the connection and in every committed state of the
\* file the run builds, the literal of every readings and meanings row is the
\* literal of a kanji row.
C4_ParentFirst ==
  /\ conn # None => Referenced(Val(conn))
  /\ Built => Referenced(Val(disk))

\* Mid-run, readings and meanings are committed and more are pending.
C4_Witness ==
  /\ pc = "meaning"
  /\ Val(disk).readings # <<>> /\ Val(disk).meanings # <<>>
  /\ Len(Val(conn).readings) > Len(Val(disk).readings)

MeaningsOf(d) == IF d = None THEN <<>> ELSE Val(d).meanings

\* The meaning elements of the first rmgroup of entry k, in document order.
MeaningChildren(k) == SelectSeq(FirstChildren(k), LAMBDA e : e.tag = "meaning")

\* A step that changes the meanings table of the connection is the turn of
\* an unqualified meaning element and adds the row of its text; a step that
\* changes the meanings table of the file copies the connection's.
MeaningsStep ==
  /\ (conn # None /\ conn' # None /\ Val(conn').meanings # Val(conn).meanings) =>
       /\ pc = "meaning"
       /\ MeaningChildren(i)[j].m_lang = <<>>
       /\ Val(conn').meanings =
            Append(Val(conn).meanings,
                   [id |-> Some(Len(Val(conn).meanings) + 1), literal |-> LiteralOf(i),
                    meaning |-> MeaningChildren(i)[j].text])
  /\ (Built /\ MeaningsOf(disk') # MeaningsOf(disk)) =>
       (conn # None /\ MeaningsOf(disk') = Val(conn).meanings)

\* C3: a meanings row is produced only by a meaning element without m_lang,
\* from that element's text, and the file receives meanings rows from the
\* connection only.
C3_MeaningsUnqualified == [][MeaningsStep]_vars

\* An entry is done whose first rmgroup holds both a meaning that was kept
\* and a meaning with m_lang.
C3_Witness ==
  /\ pc = "count"
  /\ \E e \in {FirstChildren(i)[n] : n \in 1..Len(FirstChildren(i))} :
        e.tag = "meaning" /\ e.m_lang # <<>>
  /\ \E r \in 1..Len(Val(conn).meanings) : Val(conn).meanings[r].literal = LiteralOf(i)

\* A step of a run without an argument or on a path that does not exist
\* leaves the output path alone and goes on to the path check or exits with 1.
RejectedStep ==
  argv \in {"none", "missing"} =>
    /\ disk' = disk
    /\ conn' = None
    /\ pc' \in {"exists", "exited"}
    /\ (pc' = "exited" => status' = Some(1))
    /\ (pc' = "exists" => argv = "missing" /\ status' = None)

\* C5: invoked without an argument or with a path that does not exist, the
\* script does nothing but exit with status 1, and the output path keeps what
\* it held: no file is created, deleted or modified.
C5_NothingTouched == [][RejectedStep]_vars

\* The script has exited on a missing path and an earlier output file is
\* still there.
C5_Witness == argv = "missing" /\ pc = "exited" /\ status = Some(1) /\ disk = Some(OldDb)

DomainRows(db) == [kanji |-> db.kanji, readings |-> db.readings, meanings |-> db.meanings]

\* The rows of the entries behind the first m kanji rows.
RowsOfFirst(db, m) ==
  LET lits == {db.kanji[r].literal : r \in 1..m}
  IN  [kanji |-> SubSeq(db.kanji, 1, m),
       readings |-> SelectSeq(db.readings, LAMBDA r : r.literal \in lits),
       meanings |-> SelectSeq(db.meanings, LAMBDA r : r.literal \in lits)]

\* A step that raises after count entries were processed leaves in the file
\* the rows the connection holds for the first 100 * floor(count / 100).
RaisingStep ==
  (conn # None /\ status = None /\ status' = Some(1)) =>
    LET m == 100 * (count \div 100)
    IN  /\ disk' # None
        /\ Len(Val(conn).kanji) \in {count, count + 1}
        /\ DomainRows(Val(disk')) = RowsOfFirst(Val(conn), m)

\* C7: when the run raises after count entries were processed, the file
\* holds the rows written for the first 100 * floor(count / 100) of them:
\* the batches committed stay, the partial batch is lost.
C7_CommittedBatchesKept == [][RaisingStep]_vars

\* The run raised after a batch was committed, in an entry whose kanji row
\* was written.
C7_Witness ==
  /\ pc = "exited" /\ status = Some(1)
  /\ count >= 100
  /\ Len(Val(disk).kanji) = 100 /\ Len(Val(disk).readings) = 100
  /\ Len(doc) > 100 /\ ReadingElems(doc[i]) # <<>>

\* The kanji row of entry k and, in order, exactly the rows of its kept
\* readings and meanings.
EntryRows(db, k) ==
  LET rs == SelectSeq(db.readings, LAMBDA r : r.literal = LiteralOf(k))
      ms == SelectSeq(db.meanings, LAMBDA r : r.literal = LiteralOf(k))
  IN  /\ \E r \in 1..Len(db.kanji) : db.kanji[r].literal = LiteralOf(k)
      /\ [n \in 1..Len(rs) |-> <<rs[n].readingType, rs[n].reading>>] = ExpectedReadings(k)
      /\ [n \in 1..Len(ms) |-> ms[n].meaning] = ExpectedMeanings(k)

\* C8: whenever the loop turns to the next entry, for every entry with a
\* literal that it is done with, the connection holds its kanji row and, in document order, exactly the rows of
\* the recognized readings and unqualified meanings of its first rmgroup; so
\* does the file after a run that completes.
C8_FirstGroupOnly ==
  /\ pc = "entry" => \A k \in WithLiteral : k < i => EntryRows(Val(conn), k)
  /\ (pc = "exited" /\ status = Some(0)) => \A k \in WithLiteral : EntryRows(Val(disk), k)

\* A completed run over an entry with two rmgroups, the first of them with
\* a kept reading, and an entry with a literal and no rows.
C8_Witness ==
  /\ pc = "exited" /\ status = Some(0)
  /\ \E k \in WithLiteral :
        /\ doc[k].reading_meaning # <<>>
        /\ Len(doc[k].reading_meaning[1].rmgroup) = 2
        /\ ExpectedReadings(k) # <<>>
  /\ Len(Val(disk).kanji) = 2

Flagged(db) ==
  \E r \in 1..Len(db.dictionary_metadata) :
    db.dictionary_metadata[r].key = <<"dictionary_initialized">>

\* C10: dictionary_metadata is empty, in the connection and in the file,
\* until the loop is over and its commit made; when the file holds the
\* initialization flag it holds the rows of every entry with a literal; and
\* a run that raises leaves a file without the flag.
C10_FlagLast ==
  /\ pc \in {"parse", "entry", "reading", "meaning", "count", "metadata"} =>
       /\ Val(conn).dictionary_metadata = <<>>
       /\ Val(disk).dictionary_metadata = <<>>
  /\ (Built /\ Flagged(Val(disk))) =>
       /\ pc \in {"report", "exited"}
       /\ status # Some(1)
       /\ \A k \in WithLiteral : EntryRows(Val(disk), k)
  /\ (Built /\ status = Some(1)) => Val(disk).dictionary_metadata = <<>>

\* The flag is committed after a run over more entries than one batch.
C10_Witness ==
  /\ pc = "report"
  /\ Flagged(Val(disk))
  /\ Len(Val(disk).kanji) > 100

\* C6: the second of two runs on the same existing path, at the script's
\* commit interval, leaves the output file with the content the first run
\* left, whatever the file held before each run.
C6_SameAfterRerun ==
  (run = 2 /\ pc = "exited" /\ PathExists(argv) /\ every = 100) =>
    (disk # None /\ first = Some(disk))

\* Two completed runs that wrote rows.
C6_Witness ==
  /\ run = 2 /\ pc = "exited" /\ status = Some(0) /\ every = 100
  /\ Len(Val(disk).readings) > 0

\* C9: a run that completes at any commit interval, or with no periodic
\* commit, ends with the rows the run at the script's interval ended with.
C9_IntervalFree ==
  (run = 2 /\ pc = "exited" /\ status = Some(0)) =>
    (disk # None /\ first = Some(disk))

\* A completed run that committed after every entry, compared with one
\* over the same document of several entries.
C9_Witness ==
  /\ run = 2 /\ pc = "exited" /\ status = Some(0) /\ every = 1
  /\ Len(Val(disk).kanji) > 1
====
